---- MODULE Spec2Model ----
(***************************************************************************)
(* Model of swift::MemLocation (include/swift/SIL/MemLocation.h): the      *)
(* location value type (root, kind, optional projection path), its         *)
(* equality and hashing, the DenseMapInfo traits, and the operations that  *)
(* the header only declares (initialize, hasIdenticalProjectionPath,       *)
(* getFirstLevelMemLocations, expand, reduce, isMustAliasMemLocation,      *)
(* enumerateMemLocation), which are modelled from the specification.       *)
(*                                                                         *)
(* A ProjectionPath is a sequence of projections kept leaf-first: getType  *)
(* reads the type of the location from Path.front().                       *)
(***************************************************************************)
EXTENDS Integers, Sequences, FiniteSets, TLC

VARIABLES obj, heap, last, bothAbsentIdentical,
          vault, locToBit,
          rbase, expanded, locs, phase

vars == <<obj, heap, last, bothAbsentIdentical, vault, locToBit,
          rbase, expanded, locs, phase>>

(***************************************************************************)
(* Types, values and projections (external collaborators).                 *)
(***************************************************************************)

\* A SILType: a nominal type and its category (address or object).
Ty(n, a) == [name |-> n, addr |-> a]

\* SILType::getObjectType strips the address category.
getObjectType(t) == [name |-> t.name, addr |-> FALSE]

\* The aggregate types of the analysed module: S{a: Int, b: Int}, W{s: S},
\* T{x: S, y: Int}, Q{t: T, w: W}; every other type is a leaf.
Fields(n) ==
  CASE n = "S" -> <<"Int", "Int">>
    [] n = "W" -> <<"S">>
    [] n = "T" -> <<"S", "Int">>
    [] n = "Q" -> <<"T", "W">>
    [] OTHER -> <<>>

\* The default-constructed SILValue.
NullValue == [def |-> 0, res |-> 0, ty |-> Ty("none", FALSE)]

R1 == [def |-> 1, res |-> 0, ty |-> Ty("Q", TRUE)]
R2 == [def |-> 2, res |-> 0, ty |-> Ty("T", TRUE)]
R3 == [def |-> 3, res |-> 1, ty |-> Ty("S", TRUE)]

\* The values that are roots of accesses.
Roots == {R1, R2, R3}

\* SILValue::operator bool.
SILValueBool(v) == v.def # 0

\* A projection: the field index and the (address) type of the field.
Proj(i, n) == [idx |-> i, ty |-> Ty(n, TRUE)]

\* Optional<ProjectionPath>.
None == [has |-> FALSE, val |-> <<>>]
Some(p) == [has |-> TRUE, val |-> p]

KeyKinds == {"EmptyKey", "TombstoneKey", "NormalKey"}

\* A MemLocation as a value.
Loc(b, k, p) == [Base |-> b, Kind |-> k, Path |-> p]

(***************************************************************************)
(* MemLocation: queries.                                                   *)
(***************************************************************************)

\* MemLocation::getType.
getTypeBack(L) ==
  IF L.Path.val = <<>>
    THEN getObjectType(L.Base.ty)
    ELSE getObjectType(L.Path.val[Len(L.Path.val)].ty)

getType(L) ==
  IF L.Path.val = <<>>
    THEN getObjectType(L.Base.ty)
    ELSE getObjectType(Head(L.Path.val).ty)

\* MemLocation::isValid.
isValidPathOnly(L) == L.Path.has

isValid(L) == SILValueBool(L.Base) /\ L.Path.has

\* llvm::hash_combine of the root identity; distinct inputs are taken to
\* give distinct hash codes.
hash_combine_root(v) == <<v.def, v.res, v.ty>>

\* hash_value(const ProjectionPath &): a function of the content only.
hash_value_path(p) == p

\* MemLocation::getHashCode.
getHashCode(L) ==
  IF ~L.Path.has
    THEN [root |-> hash_combine_root(L.Base), path |-> <<>>]
    ELSE [root |-> hash_combine_root(L.Base),
          path |-> <<hash_value_path(L.Path.val)>>]

\* hash_value(const MemLocation &).
hash_value(L) == [root |-> hash_combine_root(L.Base), path |-> <<>>]

\* DenseMapInfo<MemLocation>::getHashValue.
getHashValue(L) == hash_value(L)

\* MemLocation::hasIdenticalProjectionPath.  Two present paths are identical
\* when they are pointwise equal (two empty paths included); a present and
\* an absent path are not; for two absent paths the answer is left open.
hasIdenticalProjectionPath(L, RHS) ==
  IF ~L.Path.has /\ ~RHS.Path.has THEN bothAbsentIdentical
  ELSE IF L.Path.has # RHS.Path.has THEN FALSE
  ELSE IF L.Path.val = <<>> /\ RHS.Path.val = <<>> THEN TRUE
  ELSE L.Path.val = RHS.Path.val

\* MemLocation::operator==.
OpEqNoPathCheck(L, RHS) ==
  IF L.Kind # RHS.Kind THEN FALSE
  ELSE IF L.Base # RHS.Base THEN FALSE
  ELSE IF hasIdenticalProjectionPath(L, RHS) THEN FALSE
  ELSE TRUE

OpEq(L, RHS) ==
  IF L.Kind # RHS.Kind THEN FALSE
  ELSE IF L.Base # RHS.Base THEN FALSE
  ELSE IF ~hasIdenticalProjectionPath(L, RHS) THEN FALSE
  ELSE TRUE

\* DenseMapInfo<MemLocation>::isEqual.
isEqualNoTombstone(LHS, RHS) ==
  IF LHS.Kind = "EmptyKey" /\ RHS.Kind = "EmptyKey" THEN TRUE
  ELSE OpEq(LHS, RHS)

isEqual(LHS, RHS) ==
  IF LHS.Kind = "EmptyKey" /\ RHS.Kind = "EmptyKey" THEN TRUE
  ELSE IF LHS.Kind = "TombstoneKey" /\ RHS.Kind = "TombstoneKey" THEN TRUE
  ELSE OpEq(LHS, RHS)

(***************************************************************************)
(* Alias classification.                                                   *)
(***************************************************************************)

\* The answers of the alias-analysis oracle for a pair of roots.
AliasResults == {"NoAlias", "MayAlias", "MustAlias"}

\* MemLocation::isMustAliasMemLocation; ans is what the oracle answers for
\* the two roots.
isMustAliasMayToo(L, RHS, ans) ==
  IF ans = "NoAlias" THEN FALSE
  ELSE IF ~hasIdenticalProjectionPath(L, RHS) THEN FALSE
  ELSE TRUE

isMustAliasMemLocation(L, RHS, ans) ==
  IF ans # "MustAlias" THEN FALSE
  ELSE IF ~hasIdenticalProjectionPath(L, RHS) THEN FALSE
  ELSE TRUE

(***************************************************************************)
(* Projection paths.                                                       *)
(***************************************************************************)

\* The nesting depth up to which aggregates are walked.
MaxDepth == 3

\* Projection::getFirstLevelAddrProjections: one projection per field of the
\* type, in field order; none for a leaf type.
getFirstLevelAddrProjections(t) ==
  [k \in 1..Len(Fields(t.name)) |-> Proj(k - 1, Fields(t.name)[k])]

\* The paths (leaf-first) that select a sub-object of an object of type n,
\* at most d levels down.
RECURSIVE PathsFrom(_, _)
PathsFrom(n, d) ==
  {<<>>} \cup
  (IF d = 0 THEN {}
   ELSE UNION { { p \o <<Proj(k - 1, Fields(n)[k])>> :
                    p \in PathsFrom(Fields(n)[k], d - 1) } :
                k \in 1..Len(Fields(n)) })

ValidPaths(n) == PathsFrom(n, MaxDepth)

RECURSIVE Reverse(_)
Reverse(s) == IF s = <<>> THEN <<>> ELSE Reverse(Tail(s)) \o <<Head(s)>>

\* A memory access: the root value and the chain of projection instructions
\* applied to it, in program order (root first).
Accesses ==
  UNION { { [root |-> r, chain |-> Reverse(p)] : p \in ValidPaths(r.ty.name) } :
          r \in Roots }

\* The accesses and paths used to exercise single locations.
ObjRoots == {R2, R3}
ObjAccesses == { a \in Accesses : a.root \in ObjRoots }
PathPool == UNION { ValidPaths(r.ty.name) : r \in ObjRoots }
OptPathPool == {None} \cup { Some(p) : p \in PathPool }

\* MemLocation::initialize: walk from the access back to its root, appending
\* one projection per projection instruction met on the way.
RECURSIVE TraceBack(_, _)
TraceBack(chain, acc) ==
  IF chain = <<>> THEN acc
  ELSE TraceBack(SubSeq(chain, 1, Len(chain) - 1),
                 Append(acc, chain[Len(chain)]))

initialize(val) == [Base |-> val.root, Path |-> Some(TraceBack(val.chain, <<>>))]

\* p extends q: q selects an enclosing object of what p selects.
IsPathPrefix(q, p) ==
  /\ Len(q) <= Len(p)
  /\ SubSeq(p, Len(p) - Len(q) + 1, Len(p)) = q

\* What is left of p once the enclosing path q is taken off.
Remainder(p, q) == SubSeq(p, 1, Len(p) - Len(q))

\* ProjectionPath::subtractPaths(LHS, RHS): the remainder of LHS after RHS,
\* as a new path; nothing when RHS does not lead to LHS.
ProjectionPath_subtractPaths(LHS, RHS) ==
  IF IsPathPrefix(RHS, LHS) THEN Some(Remainder(LHS, RHS)) ELSE None

(***************************************************************************)
(* MemLocation objects.  Each object owns the storage of its path          *)
(* (heap[i]); obj[i].Path names the storage the object reads its path      *)
(* from, or "none".                                                        *)
(***************************************************************************)

LocIds == {"A", "B"}

\* The value held by object i when the objects are o and the storage is h.
ViewOf(o, h, i) ==
  Loc(o[i].Base, o[i].Kind,
      IF o[i].Path = "none" THEN None ELSE Some(h[o[i].Path]))

\* The value held by object i.
View(i) == ViewOf(obj, heap, i)

\* Construct object i from a root, a kind and a path moved into its storage.
Store(i, b, k, p) ==
  /\ obj' = [obj EXCEPT ![i] = [Base |-> b, Kind |-> k,
                                Path |-> IF p.has THEN i ELSE "none"]]
  /\ heap' = [heap EXCEPT ![i] = p.val]

Did(op, i, j) == last' = [op |-> op, dst |-> i, src |-> j]

\* MemLocation().
ConstructDefault(i) ==
  /\ Store(i, NullValue, "NormalKey", None)
  /\ Did("MemLocation", i, i)

\* MemLocation(SILValue B).
ConstructFromValue(i, val) ==
  /\ Store(i, initialize(val).Base, "NormalKey", initialize(val).Path)
  /\ Did("MemLocationOfValue", i, i)

\* MemLocation(SILValue B, ProjectionPath &P, KeyKind Kind).
ConstructFromPath(i, b, p, k) ==
  /\ Store(i, b, k, Some(p))
  /\ Did("MemLocationOfPath", i, i)

\* MemLocation(const MemLocation &RHS): object i is built from object j.
CopyConstructShallow(i, j) ==
  /\ i # j
  /\ obj' = [obj EXCEPT ![i] = obj[j]]
  /\ heap' = heap
  /\ Did("CopyConstruct", i, j)

CopyConstruct(i, j) ==
  /\ i # j
  /\ obj' = [obj EXCEPT ![i] = [Base |-> obj[j].Base, Kind |-> obj[j].Kind,
                                Path |-> IF obj[j].Path = "none"
                                           THEN "none" ELSE i]]
  /\ heap' = [heap EXCEPT ![i] = IF obj[j].Path = "none"
                                   THEN <<>> ELSE <<>> \o heap[obj[j].Path]]
  /\ Did("CopyConstruct", i, j)

\* MemLocation::operator=.  Path.reset() runs before RHS.Path is read, so
\* assigning an object to itself leaves it without a path.
Assign(i, j) ==
  /\ obj' = [obj EXCEPT ![i] = [Base |-> obj[j].Base, Kind |-> obj[j].Kind,
                                Path |-> IF i = j \/ obj[j].Path = "none"
                                           THEN "none" ELSE i]]
  /\ heap' = [heap EXCEPT ![i] = IF i = j \/ obj[j].Path = "none"
                                   THEN <<>> ELSE <<>> \o heap[obj[j].Path]]
  /\ Did("Assign", i, j)

\* MemLocation::setKind.
setKind(i, k) ==
  /\ obj' = [obj EXCEPT ![i].Kind = k]
  /\ heap' = heap
  /\ Did("setKind", i, i)

\* MemLocation::reset.
reset(i) ==
  /\ Store(i, NullValue, "NormalKey", None)
  /\ Did("reset", i, i)

\* MemLocation::subtractPaths: returns at once for an absent P; otherwise
\* calls ProjectionPath::subtractPaths and drops what it returns.
subtractPaths(i, P) ==
  /\ P.has => obj[i].Path # "none"
  /\ IF ~P.has
       THEN obj' = obj /\ heap' = heap
       ELSE /\ ProjectionPath_subtractPaths(View(i).Path.val, P.val) \in
                 {None} \cup { Some(q) : q \in PathPool }
            /\ obj' = obj /\ heap' = heap
  /\ Did(IF P.has THEN "subtractPaths" ELSE "subtractPathsAbsent", i, i)

\* An edit through the reference returned by MemLocation::getPath: the
\* optional path of object i is overwritten in place with P.
getPathEdit(i, P) ==
  /\ IF ~P.has
       THEN /\ obj' = [obj EXCEPT ![i].Path = "none"]
            /\ heap' = IF obj[i].Path = "none" THEN heap
                       ELSE [heap EXCEPT ![obj[i].Path] = <<>>]
       ELSE IF obj[i].Path = "none"
         THEN /\ obj' = [obj EXCEPT ![i].Path = i]
              /\ heap' = [heap EXCEPT ![i] = P.val]
         ELSE /\ obj' = obj
              /\ heap' = [heap EXCEPT ![obj[i].Path] = P.val]
  /\ Did("getPath", i, i)

\* DenseMapInfo<MemLocation>::getEmptyKey, returned into object i.
getEmptyKey(i) ==
  /\ Store(i, NullValue, "EmptyKey", None)
  /\ Did("getEmptyKey", i, i)

\* DenseMapInfo<MemLocation>::getTombstoneKey, returned into object i.
getTombstoneKey(i) ==
  /\ Store(i, NullValue, "TombstoneKey", None)
  /\ Did("getTombstoneKey", i, i)

OtherIdle == UNCHANGED <<bothAbsentIdentical, vault, locToBit,
                         rbase, expanded, locs, phase>>

Init ==
  /\ obj = [i \in LocIds |-> [Base |-> NullValue, Kind |-> "NormalKey",
                              Path |-> "none"]]
  /\ heap = [i \in LocIds |-> <<>>]
  /\ last = [op |-> "none", dst |-> "A", src |-> "A"]
  /\ bothAbsentIdentical \in BOOLEAN
  /\ vault = <<>>
  /\ locToBit = {}
  /\ rbase = Loc(NullValue, "NormalKey", None)
  /\ expanded = <<>>
  /\ locs = {}
  /\ phase = "idle"

Next ==
  \/ \E i \in LocIds : ConstructDefault(i) /\ OtherIdle
  \/ \E i \in LocIds, val \in ObjAccesses :
       ConstructFromValue(i, val) /\ OtherIdle
  \/ \E i \in LocIds, b \in ObjRoots \cup {NullValue}, p \in PathPool,
        k \in KeyKinds : ConstructFromPath(i, b, p, k) /\ OtherIdle
  \/ \E i, j \in LocIds : CopyConstruct(i, j) /\ OtherIdle
  \/ \E i, j \in LocIds : Assign(i, j) /\ OtherIdle
  \/ \E i \in LocIds, k \in KeyKinds : setKind(i, k) /\ OtherIdle
  \/ \E i \in LocIds : reset(i) /\ OtherIdle
  \/ \E i \in LocIds, P \in OptPathPool : subtractPaths(i, P) /\ OtherIdle
  \/ \E i \in LocIds, P \in OptPathPool : getPathEdit(i, P) /\ OtherIdle
  \/ \E i \in LocIds : getEmptyKey(i) /\ OtherIdle
  \/ \E i \in LocIds : getTombstoneKey(i) /\ OtherIdle

Spec == Init /\ [][Next]_vars

(***************************************************************************)
(* Hash containers keyed by MemLocation (llvm::DenseSet, llvm::DenseMap):  *)
(* a key is found where a stored key has its hash value and isEqual holds. *)
(***************************************************************************)

\* DenseSet<MemLocation>::find(x) != end().
SetFind(S, x) ==
  \E e \in S : getHashValue(e) = getHashValue(x) /\ isEqual(e, x)

\* DenseSet<MemLocation>::insert.
SetInsert(S, x) == IF SetFind(S, x) THEN S ELSE S \cup {x}

\* DenseSet<MemLocation>::erase.
SetErase(S, x) ==
  S \ { e \in S : getHashValue(e) = getHashValue(x) /\ isEqual(e, x) }

RECURSIVE SetInsertAll(_, _)
SetInsertAll(S, list) ==
  IF list = <<>> THEN S
  ELSE SetInsertAll(SetInsert(S, Head(list)), Tail(list))

RECURSIVE SetEraseAll(_, _)
SetEraseAll(S, list) ==
  IF list = <<>> THEN S
  ELSE SetEraseAll(SetErase(S, Head(list)), Tail(list))

\* DenseMap<MemLocation, unsigned>::find(k): the entries found for key k.
MapFind(M, k) ==
  { e \in M : getHashValue(e.key) = getHashValue(k) /\ isEqual(e.key, k) }

(***************************************************************************)
(* Decomposition and recomposition.                                        *)
(***************************************************************************)

\* MemLocation::getFirstLevelMemLocations: one child per first-level
\* projection of the location's type, the new projection in front of the
\* location's path.
getFirstLevelMemLocations(L) ==
  LET Out == getFirstLevelAddrProjections(getType(L))
  IN [k \in 1..Len(Out) |->
        Loc(L.Base, "NormalKey", Some(<<Out[k]>> \o L.Path.val))]

RECURSIVE Flatten(_)
Flatten(ss) == IF ss = <<>> THEN <<>> ELSE Head(ss) \o Flatten(Tail(ss))

\* One round of expansion: every location that has first-level children is
\* replaced by them, in place.
ExpandRound(list) ==
  Flatten([k \in 1..Len(list) |->
             IF getFirstLevelMemLocations(list[k]) = <<>>
               THEN <<list[k]>>
               ELSE getFirstLevelMemLocations(list[k])])

RECURSIVE ExpandRounds(_, _)
ExpandRounds(list, d) ==
  IF d = 0 \/ ExpandRound(list) = list THEN list
  ELSE ExpandRounds(ExpandRound(list), d - 1)

\* MemLocation::expand: first-level expansion repeated until only leaves are
\* left (at most MaxDepth rounds).
expand(L) == ExpandRounds(<<L>>, MaxDepth)

\* The location one projection above L.
Parent(L) == Loc(L.Base, "NormalKey", Some(Tail(L.Path.val)))

\* The locations at or below Base that can replace their children in S: all
\* their first-level children are in S.
Mergeable(Base, S) ==
  { P \in { Parent(l) : l \in { x \in S : x.Path.has /\ x.Path.val # <<>> } } :
      /\ P.Base = Base.Base
      /\ IsPathPrefix(Base.Path.val, P.Path.val)
      /\ getFirstLevelMemLocations(P) # <<>>
      /\ Cardinality({ k \in 1..Len(getFirstLevelMemLocations(P)) :
                         SetFind(S, getFirstLevelMemLocations(P)[k]) })
           = Len(Fields(getType(P).name)) }

\* MemLocation::reduce: a complete set of siblings is replaced by its parent,
\* bottom-up, until no parent at or below Base has all its children in the
\* set.
RECURSIVE reduce(_, _)
reduce(Base, S) ==
  IF Mergeable(Base, S) = {} THEN S
  ELSE LET P == CHOOSE P \in Mergeable(Base, S) :
                  \A Q \in Mergeable(Base, S) :
                    Len(Q.Path.val) <= Len(P.Path.val)
       IN reduce(Base,
                 SetInsert(SetEraseAll(S, getFirstLevelMemLocations(P)), P))

\* The locations handed to expand: built from an access, of any kind.
ExpandInputs ==
  { Loc(initialize(val).Base, k, initialize(val).Path) :
      val \in Accesses, k \in KeyKinds }

\* expand(L, Mod, Locs), the list then put into a MemLocationSet.
Expand(L) ==
  /\ isValid(L)
  /\ rbase' = L
  /\ expanded' = expand(L)
  /\ locs' = SetInsertAll({}, expand(L))
  /\ phase' = "expanded"

\* The client takes a location out of the set before reducing it.
Kill(l) ==
  /\ phase \in {"expanded", "partial"}
  /\ l \in locs
  /\ locs' = SetErase(locs, l)
  /\ phase' = "partial"
  /\ UNCHANGED <<rbase, expanded>>

\* reduce(Base, Mod, Locs).
Reduce ==
  /\ phase \in {"expanded", "partial"}
  /\ locs' = reduce(rbase, locs)
  /\ phase' = IF phase = "expanded" THEN "roundtrip" ELSE "reduced"
  /\ UNCHANGED <<rbase, expanded>>

NextAlgebra ==
  \/ \E L \in ExpandInputs : Expand(L) /\ UNCHANGED <<obj, heap, last,
                               bothAbsentIdentical, vault, locToBit>>
  \/ \E l \in locs : Kill(l) /\ UNCHANGED <<obj, heap, last,
                               bothAbsentIdentical, vault, locToBit>>
  \/ Reduce /\ UNCHANGED <<obj, heap, last, bothAbsentIdentical, vault,
                           locToBit>>

SpecAlgebra == Init /\ [][NextAlgebra]_vars

(***************************************************************************)
(* Enumeration.                                                            *)
(***************************************************************************)

\* The accesses of the enumerated function.
EnumAccesses == ObjAccesses

\* The loop of enumerateMemLocation over the expanded locations: a location
\* not yet in LocToBit is given the next index and appended to the vault.
RECURSIVE EnumLocs(_, _, _)
EnumLocs(list, V, M) ==
  IF list = <<>> THEN [vault |-> V, locToBit |-> M]
  ELSE IF MapFind(M, Head(list)) # {}
    THEN EnumLocs(Tail(list), V, M)
    ELSE EnumLocs(Tail(list), Append(V, Head(list)),
                  M \cup {[key |-> Head(list), val |-> Len(V)]})

\* MemLocation::enumerateMemLocation.
enumerateMemLocation(Mem) ==
  LET L == Loc(initialize(Mem).Base, "NormalKey", initialize(Mem).Path)
      R == EnumLocs(expand(L), vault, locToBit)
  IN /\ isValid(L)
     /\ vault' = R.vault
     /\ locToBit' = R.locToBit

\* MemLocation::enumerateMemLocations visits the accesses of the function
\* one after the other.
NextEnum ==
  \E Mem \in EnumAccesses :
    enumerateMemLocation(Mem) /\ UNCHANGED <<obj, heap, last,
                                 bothAbsentIdentical, rbase, expanded, locs,
                                 phase>>

SpecEnum == Init /\ [][NextEnum]_vars

(***************************************************************************)
(* Properties of single locations, checked under Spec.                     *)
(***************************************************************************)

IsSentinel(L) == L.Kind \in {"EmptyKey", "TombstoneKey"}

\* C3: must_alias(A, B) is true only if the oracle reports MustAlias (or the
\* roots are identical) and the two paths are identical; with identical
\* present paths and a MustAlias answer it is true; with a MayAlias answer it
\* is false even if the paths are identical.
C3_MustAlias ==
  \A i, j \in LocIds : \A ans \in AliasResults :
    LET A == View(i)
        B == View(j)
        must == isMustAliasMemLocation(A, B, ans)
    IN /\ must => /\ (ans = "MustAlias" \/ A.Base = B.Base)
                  /\ A.Path = B.Path
       /\ (A.Path.has /\ A.Path = B.Path /\ ans = "MustAlias") => must
       /\ ans = "MayAlias" => ~must

C3_Witness ==
  /\ View("A").Path.has
  /\ Len(View("A").Path.val) = 2
  /\ View("A").Path = View("B").Path
  /\ View("A").Base # View("B").Base
  /\ isMustAliasMemLocation(View("A"), View("B"), "MustAlias")
  /\ ~isMustAliasMemLocation(View("A"), View("B"), "MayAlias")

\* C5: for any two locations A and B of any kind, with any root and with the
\* path present or absent, isEqual(A, B) implies getHashValue(A) =
\* getHashValue(B).
C5_EqualHashEqual ==
  \A i, j \in LocIds :
    isEqual(View(i), View(j)) => getHashValue(View(i)) = getHashValue(View(j))

\* C6 as stated: when at least one of A and B is a sentinel, operator== and
\* isEqual both hold exactly when A and B have the same sentinel kind.  It is
\* stated for the pairs in which a path is present, where the header alone
\* settles operator==.
C6_Original ==
  \A i, j \in LocIds :
    ((IsSentinel(View(i)) \/ IsSentinel(View(j)))
       /\ (View(i).Path.has \/ View(j).Path.has)) =>
      /\ isEqual(View(i), View(j)) <=> View(i).Kind = View(j).Kind
      /\ OpEq(View(i), View(j)) <=> View(i).Kind = View(j).Kind

\* C6 amended: when at least one of A and B is a sentinel, isEqual holds
\* exactly when A and B have the same sentinel kind, whatever root and path
\* they hold; operator== holds only if they have the same kind (a sentinel is
\* never == to a Normal location), and two sentinels of the same kind with
\* different roots are not ==.
C6_SentinelEquality ==
  \A i, j \in LocIds :
    (IsSentinel(View(i)) \/ IsSentinel(View(j))) =>
      /\ isEqual(View(i), View(j)) <=> View(i).Kind = View(j).Kind
      /\ OpEq(View(i), View(j)) => View(i).Kind = View(j).Kind
      /\ View(i).Base # View(j).Base => ~OpEq(View(i), View(j))

C6_Witness ==
  /\ View("A").Kind = "TombstoneKey"
  /\ View("B").Kind = "TombstoneKey"
  /\ View("A").Base # View("B").Base
  /\ View("A").Path.has
  /\ View("A").Path # View("B").Path
  /\ isEqual(View("A"), View("B"))
  /\ ~OpEq(View("A"), View("B"))

\* C7 as stated: isValid() is true exactly when the kind is Normal and the
\* path is present.
C7_Original ==
  \A i \in LocIds :
    isValid(View(i)) <=> (View(i).Kind = "NormalKey" /\ View(i).Path.has)

\* C7 amended: isValid() is true exactly when the root is not the null value
\* and the path is present, whatever the kind; so a default-constructed or
\* reset location and the keys made by getEmptyKey and getTombstoneKey are
\* not valid, and a location built by tracing an access is.
C7_IsValid ==
  /\ \A i \in LocIds :
       isValid(View(i)) <=> (obj[i].Base \in ObjRoots /\ obj[i].Path # "none")
  /\ last.op \in {"MemLocation", "reset", "getEmptyKey", "getTombstoneKey"}
       => ~isValid(View(last.dst))
  /\ last.op = "MemLocationOfValue"
       => isValid(View(last.dst)) /\ View(last.dst).Kind = "NormalKey"

C7_Witness ==
  /\ isValid(View("A")) /\ View("A").Kind = "EmptyKey"
  /\ ~isValid(View("B")) /\ View("B").Kind = "NormalKey" /\ View("B").Path.has

\* C8: a copy-constructed or assigned location has the kind, root and path
\* content of its source, and an operation on one location leaves the kind,
\* root and path of every other location unchanged.
C8_ValueSemantics ==
  [][ /\ last'.op \in {"CopyConstruct", "Assign"}
        => ViewOf(obj', heap', last'.dst) = ViewOf(obj', heap', last'.src)
      /\ \A k \in LocIds \ {last'.dst} :
           ViewOf(obj', heap', k) = View(k) ]_vars

C8_Witness ==
  /\ last.op = "CopyConstruct"
  /\ View(last.dst) = View(last.src)
  /\ View(last.dst).Kind = "TombstoneKey"
  /\ View(last.dst).Base = R2
  /\ Len(View(last.dst).Path.val) = 2
  /\ obj[last.dst].Path # obj[last.src].Path

\* C9: for a location L with a present path and a present argument P that is
\* a prefix of L's path, L.subtractPaths(P) leaves in L the remainder of its
\* former path, with root and kind unchanged; with P absent it leaves L
\* unchanged.
C9_SubtractPaths ==
  [][ \A i \in LocIds : \A P \in OptPathPool :
        subtractPaths(i, P) =>
          /\ (P.has /\ View(i).Path.has /\ IsPathPrefix(P.val, View(i).Path.val))
               => ViewOf(obj', heap', i) =
                    Loc(View(i).Base, View(i).Kind,
                        Some(Remainder(View(i).Path.val, P.val)))
          /\ ~P.has => ViewOf(obj', heap', i) = View(i) ]_vars

\* C10: the hash the hash containers use for a location equals the
\* location's getHashCode(), which combines the root identity with the
\* path's hash when the path is present.
C10_ContainerHash ==
  \A i \in LocIds : getHashValue(View(i)) = getHashCode(View(i))

(***************************************************************************)
(* Properties of expand and reduce, checked under SpecAlgebra.             *)
(***************************************************************************)

\* The name of the type of the sub-object that path p selects in root r.
EndType(r, p) == IF p = <<>> THEN r.ty.name ELSE Head(p).ty.name

\* The paths of the leaf sub-objects of location L.
LeafPaths(L) ==
  { p \in ValidPaths(L.Base.ty.name) :
      /\ IsPathPrefix(L.Path.val, p)
      /\ Fields(EndType(L.Base, p)) = <<>> }

C2_ExpandTotalDisjoint ==
  phase = "expanded" =>
    /\ \A k \in 1..Len(expanded) :
         /\ expanded[k].Base = rbase.Base
         /\ expanded[k].Path.has
         /\ expanded[k].Path.val \in LeafPaths(rbase)
    /\ \A k, m \in 1..Len(expanded) :
         k # m => ~IsPathPrefix(expanded[k].Path.val, expanded[m].Path.val)
    /\ \A p \in LeafPaths(rbase) :
         Cardinality({ k \in 1..Len(expanded) : expanded[k].Path.val = p }) = 1

C2_Witness ==
  /\ phase = "expanded"
  /\ rbase = Loc(R1, "NormalKey", Some(<<>>))
  /\ Len(expanded) = 5
  /\ Cardinality(locs) = 5

(***************************************************************************)
(* Properties of the enumeration, checked under SpecEnum.                  *)
(***************************************************************************)

\* C4: after any sequence of enumerations from an empty vault and an empty
\* reverse index, no two vault positions hold equal locations, the reverse
\* index has exactly one entry per vault element and maps the location at
\* position i to i, and a location once in the vault keeps its position.
C4_VaultIndexInverse ==
  /\ [](/\ \A i, j \in 1..Len(vault) : i # j => vault[i] # vault[j]
        /\ Cardinality(locToBit) = Len(vault)
        /\ \A i \in 1..Len(vault) :
             [key |-> vault[i], val |-> i - 1] \in locToBit)
  /\ [][ /\ Len(vault') >= Len(vault)
         /\ SubSeq(vault', 1, Len(vault)) = vault ]_vars

C4_Witness ==
  /\ Len(vault) = 5
  /\ vault[1].Base = R2 /\ vault[2].Base = R3 /\ vault[3].Base = R2
  /\ Cardinality(locToBit) = 5

====
